---- MODULE Spec2Model ----
(***************************************************************************)
(* Fordox edge functions: the get-raw-data handler (generic table query    *)
(* builder) and the connection lifecycle of the get-sensor-data handler.   *)
(*                                                                         *)
(* Strings that the code converts (parseInt, toUpperCase) are sequences of *)
(* one-character strings; strings that the code only compares or           *)
(* interpolates are TLA+ strings.  SQL text is a sequence of tokens, so    *)
(* that what is interpolated and what is bound can be told apart.          *)
(***************************************************************************)
EXTENDS Integers, Sequences, FiniteSets, TLC

\* ------------------------------------------------------------------ bounds
\* largest digit used for the page, pageSize and grupo_id query strings
MaxDigit == 2
\* largest row count the count query reports
MaxRows == 3

\* --------------------------------------------------------- JS value helpers
\* URLSearchParams.get returns null for an absent parameter
Null == "<null>"

Range(s) == {s[i] : i \in DOMAIN s}

DigitChars == <<"0", "1", "2", "3", "4", "5", "6", "7", "8", "9">>
LowerChars == <<"a", "b", "c", "d", "e", "f", "g", "h", "i", "j", "k", "l", "m",
                "n", "o", "p", "q", "r", "s", "t", "u", "v", "w", "x", "y", "z">>
UpperChars == <<"A", "B", "C", "D", "E", "F", "G", "H", "I", "J", "K", "L", "M",
                "N", "O", "P", "Q", "R", "S", "T", "U", "V", "W", "X", "Y", "Z">>

IsDigit(c) == \E i \in DOMAIN DigitChars : DigitChars[i] = c
DigitVal(c) == (CHOOSE i \in DOMAIN DigitChars : DigitChars[i] = c) - 1

\* a JS number: an integer, NaN or an infinity
NumInt(n) == [k |-> "int", n |-> n]
NaN == [k |-> "nan", n |-> 0]
Infinity == [k |-> "inf", n |-> 0]
IsInt(x) == x.k = "int"

RECURSIVE SkipSpaces(_)
SkipSpaces(s) ==
  IF s # <<>> /\ Head(s) = " " THEN SkipSpaces(Tail(s)) ELSE s

RECURSIVE DigitPrefix(_)
DigitPrefix(s) ==
  IF s # <<>> /\ IsDigit(Head(s)) THEN <<Head(s)>> \o DigitPrefix(Tail(s)) ELSE <<>>

RECURSIVE DigitsValue(_, _)
DigitsValue(s, acc) ==
  IF s = <<>> THEN acc ELSE DigitsValue(Tail(s), acc * 10 + DigitVal(Head(s)))

\* parseInt(s): leading blanks, an optional sign, the longest digit prefix
ParseInt(s) ==
  LET t    == SkipSpaces(s)
      neg  == t # <<>> /\ Head(t) = "-"
      sgn  == t # <<>> /\ Head(t) \in {"-", "+"}
      body == IF sgn THEN Tail(t) ELSE t
      ds   == DigitPrefix(body)
  IN  IF ds = <<>> THEN NaN
      ELSE NumInt((IF neg THEN -1 ELSE 1) * DigitsValue(ds, 0))

\* s || d for a query-string value (absent and empty are both falsy)
OrDefault(s, d) == IF s = <<>> THEN d ELSE s

UpperChar(c) ==
  IF \E i \in DOMAIN LowerChars : LowerChars[i] = c
  THEN UpperChars[CHOOSE i \in DOMAIN LowerChars : LowerChars[i] = c]
  ELSE c

\* String.prototype.toUpperCase
ToUpperCase(s) == [i \in DOMAIN s |-> UpperChar(s[i])]

ASC == <<"A", "S", "C">>
DESC == <<"D", "E", "S", "C">>

\* faulty variant: the offset of page p starts after page p
JsOffsetOneBased(page, pageSize) ==
  IF IsInt(page) /\ IsInt(pageSize) THEN NumInt(page.n * pageSize.n) ELSE NaN

\* (a - 1) * b
JsOffset(page, pageSize) ==
  IF IsInt(page) /\ IsInt(pageSize) THEN NumInt((page.n - 1) * pageSize.n) ELSE NaN

\* Math.ceil(a / b) for an integer a >= 0
JsCeilDiv(a, b) ==
  IF ~IsInt(b) THEN NaN
  ELSE IF b.n = 0 THEN (IF a = 0 THEN NaN ELSE Infinity)
  ELSE IF b.n > 0 THEN NumInt((a + b.n - 1) \div b.n)
  ELSE NumInt(-(a \div (-b.n)))

\* ------------------------------------------------------------- SQL tokens
\* fixed text written in the source
Kw(s) == [k |-> "kw", s |-> s, n |-> 0, cs |-> <<>>]
\* an interpolated identifier inside double quotes: "${x}"
Ident(s) == [k |-> "ident", s |-> s, n |-> 0, cs |-> <<>>]
\* an interpolated identifier without quotes: ${x}
RawIdent(s) == [k |-> "rawident", s |-> s, n |-> 0, cs |-> <<>>]
\* a placeholder $n
Ph(n) == [k |-> "ph", s |-> "", n |-> n, cs |-> <<>>]
\* an interpolated sort direction
Dir(cs) == [k |-> "dir", s |-> "", n |-> 0, cs |-> cs]
\* an interpolated number
NumLit(x) == [k |-> "numlit", s |-> x.k, n |-> x.n, cs |-> <<>>]
\* an interpolated string literal
StrLit(s) == [k |-> "strlit", s |-> s, n |-> 0, cs |-> <<>>]

\* bound parameters
PText(s) == [k |-> "text", s |-> s, num |-> NaN]
\* the pattern `%${filter}%`
PLike(s) == [k |-> "like", s |-> s, num |-> NaN]
PNum(x) == [k |-> "num", s |-> "", num |-> x]

RECURSIVE JoinSeqs(_, _)
\* Array.prototype.join on token groups
JoinSeqs(parts, sep) ==
  IF parts = <<>> THEN <<>>
  ELSE IF Len(parts) = 1 THEN parts[1]
  ELSE parts[1] \o <<sep>> \o JoinSeqs(Tail(parts), sep)

\* ------------------------------------------------------- the external store
\* columns of the public schema, as information_schema.columns reports them
DbColumns(t) ==
  CASE t = "informacoes" -> <<"id", "sensor", "valor", "grupo", "data_registro", "dispositivo">>
    [] t = "sensor" -> <<"id", "descricao", "tipo">>
    [] t = "grupo" -> <<"id", "nome", "localizacao">>
    [] OTHER -> <<>>

\* ------------------------------------------------------------ request inputs
TableNames == {Null, "informacoes", "sensor", "grupo", "users"}
Filters == {"", "a", "'; DROP TABLE sensor; --"}
\* the filters of the requests that arrive
RequestFilters == {"", "'; DROP TABLE sensor; --"}
SortBys == {Null, "id", "sensor_descricao", "x\"; DROP TABLE sensor; --"}
SortOrders == {<<>>, <<"d", "e", "s", "c">>, DESC, <<"a", "s", "c">>, <<"u", "p">>}
\* query-string numerals: absent, 0..MaxDigit, a negative one, a non-numeric one
Numerals ==
  {<<>>, <<"-", "1">>, <<"a">>} \cup {<<DigitChars[d + 1]>> : d \in 0..MaxDigit}
\* (method, Authorization header present)
Arrivals == {<<"OPTIONS", FALSE>>, <<"GET", FALSE>>, <<"GET", TRUE>>}

RawRequests ==
  [method : {"GET"}, authHeader : {TRUE}, tableName : TableNames,
   page : Numerals, pageSize : Numerals, filter : RequestFilters,
   sortBy : SortBys, sortOrder : SortOrders, grupoId : {<<>>}]

NoRequest ==
  [method |-> "", authHeader |-> FALSE, tableName |-> Null, page |-> <<>>,
   pageSize |-> <<>>, filter |-> "", sortBy |-> Null, sortOrder |-> <<>>,
   grupoId |-> <<>>]

\* ------------------------------------------------------------------- state
VARIABLES
  fn,            \* the edge function serving the request: "raw" | "sensor"
  pc,            \* the handler's position
  req,           \* the request: method, Authorization header, query string
  pgEnv,         \* PGHOST, PGDB, PGUSER and PGPASSWORD are all set
  connState,     \* pg.Client: "none" | "open" | "closed" | "failed"
  connectCalled, \* client.connect() was called
  endCalled,     \* client.end() was called
  issued,        \* the statements passed to client.query, in order
  loc,           \* the handler's local variables
  dataState,     \* the data query of Promise.all: "none" | "pending" | "ok" | "err"
  countState,    \* the count query of Promise.all
  resp,          \* the response returned, status 0 while there is none
  fault,         \* the awaited call that threw, "none" if none did
  dbRows,        \* rows of the requested table that match the filter
  resultRows,    \* get-sensor-data: result.rows
  sensorData,    \* get-sensor-data: the sensor groups, in insertion order
  metrics,       \* get-sensor-data: the six category slots
  aggI,          \* get-sensor-data: rows or groups already visited by forEach
  cfgTable,      \* app_configs: the rows of the table, in insertion order
  cfgProc,       \* get-app-configs / update-app-configs: one request per process
  ui,            \* RawDataViewer: the component state
  uiFetches      \* RawDataViewer: the fetchData calls still awaiting their response

\* the state of the get-sensor-data aggregation
aggVars == <<resultRows, sensorData, metrics, aggI>>

\* the state of the app_configs functions
cfgVars == <<cfgTable, cfgProc>>

\* the state of the RawDataViewer component
uiVars == <<ui, uiFetches>>

vars ==
  <<fn, pc, req, pgEnv, connState, connectCalled, endCalled, issued, loc,
    dataState, countState, resp, fault, dbRows, aggVars, cfgVars, uiVars>>

NoMeta ==
  [totalRows |-> 0, totalPages |-> NaN, currentPage |-> NaN, pageSize |-> NaN,
   tableName |-> Null, filter |-> "", sortBy |-> Null, sortOrder |-> <<>>]

NoResp ==
  [status |-> 0, error |-> "", allowedTables |-> {}, success |-> FALSE,
   dataLen |-> 0, meta |-> NoMeta]

ErrorResp(status, error) == [NoResp EXCEPT !.status = status, !.error = error]

NoLoc ==
  [page |-> NaN, pageSize |-> NaN, filter |-> "", sortOrder |-> <<>>, offset |-> NaN,
   query |-> <<>>, countQuery |-> <<>>,
   mainQueryParams |-> <<>>, countQueryParams |-> <<>>,
   mainParamIndex |-> 1, countParamIndex |-> 1,
   dataRows |-> 0, totalRows |-> 0]

\* the component before it is mounted
NoUi == [mounted |-> FALSE]

Stmt(kind, text, params) == [kind |-> kind, text |-> text, params |-> params]

Init ==
  /\ fn = "none"
  /\ pc = "idle"
  /\ req = NoRequest
  /\ pgEnv \in BOOLEAN
  /\ connState = "none"
  /\ connectCalled = FALSE
  /\ endCalled = FALSE
  /\ issued = <<>>
  /\ loc = NoLoc
  /\ dataState = "none"
  /\ countState = "none"
  /\ resp = NoResp
  /\ fault = "none"
  /\ dbRows = 0
  /\ resultRows = <<>>
  /\ sensorData = <<>>
  /\ metrics = <<>>
  /\ aggI = 0
  /\ cfgTable = <<>>
  /\ cfgProc = <<>>
  /\ ui = NoUi
  /\ uiFetches = {}

\* ------------------------------------------- get-raw-data: query construction
\* a JS string used as a condition: null and '' are falsy
Truthy(s) == s # Null /\ s # ""

allowedTables == {"informacoes", "sensor", "grupo"}

\* !tableName || !allowedTables.includes(tableName)
InvalidTable(tableName) == ~Truthy(tableName) \/ tableName \notin allowedTables

\* offset, query, countQuery, the two parameter arrays and the two indexes
BaseBuilder(b, tableName) ==
  [b EXCEPT !.offset = JsOffset(b.page, b.pageSize),
            !.query = <<Kw("SELECT * FROM public."), Ident(tableName)>>,
            !.countQuery = <<Kw("SELECT COUNT(*) FROM public."), Ident(tableName)>>,
            !.mainQueryParams = <<>>, !.countQueryParams = <<>>,
            !.mainParamIndex = 1, !.countParamIndex = 1]

\* `CAST("${col}" AS TEXT) ILIKE $${index}`
FilterCondition(col, index) ==
  <<Kw("CAST("), Ident(col), Kw(" AS TEXT) ILIKE "), Ph(index)>>

\* columnNames.map(col => ... $${index++}).join(' OR '), index starting at first
FilterConditions(columnNames, first) ==
  JoinSeqs([i \in DOMAIN columnNames |-> FilterCondition(columnNames[i], first + i - 1)],
           Kw(" OR "))

\* faulty variant: the count query's filter leaves out the last column
CountFilterConditionsShort(columnNames, first) ==
  JoinSeqs([i \in 1..(Len(columnNames) - 1) |->
              FilterCondition(columnNames[i], first + i - 1)],
           Kw(" OR "))

\* the count query's conditions over the same columnNames
CountFilterConditions(columnNames, first) ==
  JoinSeqs([i \in DOMAIN columnNames |-> FilterCondition(columnNames[i], first + i - 1)],
           Kw(" OR "))

\* faulty variant: the pattern is pushed once for all columns
FilterParamsOnce(n, filter) == <<PLike(filter)>>

\* one `%${filter}%` pushed per column
FilterParams(n, filter) == [i \in 1..n |-> PLike(filter)]

\* the body of if (filter), once the column names are known
ApplyFilter(b, columnNames, filter) ==
  [b EXCEPT
     !.query = @ \o <<Kw(" WHERE (")>> \o
                FilterConditions(columnNames, b.mainParamIndex) \o <<Kw(")")>>,
     !.countQuery = @ \o <<Kw(" WHERE (")>> \o
                CountFilterConditions(columnNames, b.countParamIndex) \o <<Kw(")")>>,
     !.mainParamIndex = @ + Len(columnNames),
     !.countParamIndex = @ + Len(columnNames),
     !.mainQueryParams = @ \o FilterParams(Len(columnNames), filter),
     !.countQueryParams = @ \o FilterParams(Len(columnNames), filter)]

\* faulty variant: the direction is compared without toUpperCase
ValidatedSortOrderCaseSensitive(sortOrder) ==
  IF sortOrder \in {ASC, DESC} THEN sortOrder ELSE ASC

\* ['ASC', 'DESC'].includes(sortOrder.toUpperCase()) ? sortOrder.toUpperCase() : 'ASC'
ValidatedSortOrder(sortOrder) ==
  IF ToUpperCase(sortOrder) \in {ASC, DESC} THEN ToUpperCase(sortOrder) ELSE ASC

\* rows of the column check: the columns of the table that are named sortBy
ColumnCheckRows(tableName, sortBy) ==
  SelectSeq(DbColumns(tableName), LAMBDA c : c = sortBy)

\* faulty variant: the column check's result is not looked at
SortColumnAcceptedAlways(rows) == TRUE

\* columnCheckResult.rows.length > 0
SortColumnAccepted(rows) == Len(rows) > 0

\* the body of if (sortBy), once the column check has returned
ApplySort(b, sortBy, sortOrder, rows) ==
  IF SortColumnAccepted(rows)
  THEN [b EXCEPT !.query = @ \o <<Kw(" ORDER BY "), Ident(sortBy), Kw(" "),
                                  Dir(ValidatedSortOrder(sortOrder))>>]
  ELSE b

\* faulty variant: pageSize and offset are interpolated instead of bound
AddPaginationInterpolated(b, pageSize, offset) ==
  [b EXCEPT
     !.query = @ \o <<Kw(" LIMIT "), NumLit(pageSize),
                      Kw(" OFFSET "), NumLit(offset)>>]

\* query += ` LIMIT $n OFFSET $n+1`; mainQueryParams.push(pageSize, offset)
AddPagination(b, pageSize, offset) ==
  [b EXCEPT
     !.query = @ \o <<Kw(" LIMIT "), Ph(b.mainParamIndex),
                      Kw(" OFFSET "), Ph(b.mainParamIndex + 1)>>,
     !.mainParamIndex = @ + 2,
     !.mainQueryParams = @ \o <<PNum(pageSize), PNum(offset)>>]

\* the informacoes special case
joinQuery ==
  <<Kw("SELECT i.id, i.sensor, s.descricao as sensor_descricao, i.valor, i.grupo, g.nome as grupo_nome, i.data_registro, i.dispositivo FROM public.\"informacoes\" i LEFT JOIN public.\"sensor\" s ON i.sensor = s.id LEFT JOIN public.\"grupo\" g ON i.grupo = g.id")>>

joinCountQuery ==
  <<Kw("SELECT COUNT(*) FROM public.\"informacoes\" i LEFT JOIN public.\"sensor\" s ON i.sensor = s.id LEFT JOIN public.\"grupo\" g ON i.grupo = g.id")>>

filterColumns ==
  <<"i.id", "i.sensor", "s.descricao", "i.valor", "i.grupo", "g.nome",
    "i.data_registro", "i.dispositivo">>

validColumns ==
  {"id", "sensor", "sensor_descricao", "valor", "grupo", "grupo_nome",
   "data_registro", "dispositivo"}

\* `CAST(${col} AS TEXT) ILIKE $${index}`
JoinFilterCondition(col, index) ==
  <<Kw("CAST("), RawIdent(col), Kw(" AS TEXT) ILIKE "), Ph(index)>>

JoinFilterConditions(first) ==
  JoinSeqs([i \in DOMAIN filterColumns |-> JoinFilterCondition(filterColumns[i], first + i - 1)],
           Kw(" OR "))

JoinCountFilterConditions(first) ==
  JoinSeqs([i \in DOMAIN filterColumns |-> JoinFilterCondition(filterColumns[i], first + i - 1)],
           Kw(" OR "))

\* finalQuery, finalCountQuery, joinMainParams, joinCountParams and their indexes
JoinBase(b) ==
  [b EXCEPT !.query = joinQuery, !.countQuery = joinCountQuery,
            !.mainQueryParams = <<>>, !.countQueryParams = <<>>,
            !.mainParamIndex = 1, !.countParamIndex = 1]

JoinApplyFilter(b, filter) ==
  [b EXCEPT
     !.query = @ \o <<Kw(" WHERE (")>> \o JoinFilterConditions(b.mainParamIndex) \o <<Kw(")")>>,
     !.countQuery = @ \o <<Kw(" WHERE (")>> \o
                JoinCountFilterConditions(b.countParamIndex) \o <<Kw(")")>>,
     !.mainParamIndex = @ + Len(filterColumns),
     !.countParamIndex = @ + Len(filterColumns),
     !.mainQueryParams = @ \o FilterParams(Len(filterColumns), filter),
     !.countQueryParams = @ \o FilterParams(Len(filterColumns), filter)]

\* faulty variant: sortBy is not checked against validColumns
JoinSortAcceptedAlways(sortBy) == TRUE

\* validColumns.includes(sortBy)
JoinSortAccepted(sortBy) == sortBy \in validColumns

JoinApplySort(b, sortBy, sortOrder) ==
  IF JoinSortAccepted(sortBy)
  THEN [b EXCEPT !.query = @ \o <<Kw(" ORDER BY "), RawIdent(sortBy), Kw(" "),
                                  Dir(ValidatedSortOrder(sortOrder))>>]
  ELSE b

\* faulty variant: offset and pageSize are pushed in the wrong order
JoinAddPaginationSwapped(b, pageSize, offset) ==
  [b EXCEPT
     !.query = @ \o <<Kw(" LIMIT "), Ph(b.mainParamIndex),
                      Kw(" OFFSET "), Ph(b.mainParamIndex + 1)>>,
     !.mainParamIndex = @ + 2,
     !.mainQueryParams = @ \o <<PNum(offset), PNum(pageSize)>>]

JoinAddPagination(b, pageSize, offset) ==
  [b EXCEPT
     !.query = @ \o <<Kw(" LIMIT "), Ph(b.mainParamIndex),
                      Kw(" OFFSET "), Ph(b.mainParamIndex + 1)>>,
     !.mainParamIndex = @ + 2,
     !.mainQueryParams = @ \o <<PNum(pageSize), PNum(offset)>>]

\* finalQuery and finalCountQuery with their parameters, built from the locals
JoinBuilder(b, filter, sortBy, sortOrder) ==
  LET j0 == JoinBase(b)
      j1 == IF filter # "" THEN JoinApplyFilter(j0, filter) ELSE j0
      j2 == IF Truthy(sortBy) THEN JoinApplySort(j1, sortBy, sortOrder) ELSE j1
  IN  JoinAddPagination(j2, b.pageSize, b.offset)

\* faulty variant: the generic statements are sent for every table
FinalStatementsGeneric(b, tableName, sortBy) ==
  <<Stmt("data", b.query, b.mainQueryParams),
    Stmt("count", b.countQuery, b.countQueryParams)>>

\* the two statements handed to Promise.all
FinalStatements(b, tableName, sortBy) ==
  LET f == IF tableName = "informacoes"
           THEN JoinBuilder(b, b.filter, sortBy, b.sortOrder)
           ELSE b
  IN  <<Stmt("data", f.query, f.mainQueryParams),
        Stmt("count", f.countQuery, f.countQueryParams)>>

\* the locals read from the query string
ParseParams(b, r) ==
  LET page     == ParseInt(OrDefault(r.page, <<"1">>))
      pageSize == ParseInt(OrDefault(r.pageSize, <<"1", "0">>))
  IN  [b EXCEPT !.page = page, !.pageSize = pageSize,
                !.filter = IF r.filter = Null THEN "" ELSE r.filter,
                !.sortOrder = OrDefault(r.sortOrder, ASC)]

\* ------------------------------------------------------ get-raw-data: handler
SensorRequests ==
  [method : {"GET"}, authHeader : {TRUE}, tableName : {Null},
   page : {<<>>}, pageSize : {<<>>}, filter : {""},
   sortBy : {Null}, sortOrder : {<<>>},
   grupoId : {<<>>, <<"a">>} \cup {<<DigitChars[d + 1]>> : d \in 0..MaxDigit}]

\* the outer catch: a 500 with the error's message
Caught == ErrorResp(500, "Internal server error")

Return(r) ==
  /\ resp' = r
  /\ pc' = "done"

\* the catch block's response to an error thrown by the awaited call `what`
CaughtFor(what) == Caught

Throw(what) ==
  /\ fault' = what
  /\ Return(CaughtFor(what))

\* a request arrives at one of the two functions
Receive ==
  /\ pc = "idle"
  /\ \E f \in {"raw", "sensor"}, a \in Arrivals :
       \E r \in (IF f = "raw" THEN RawRequests ELSE SensorRequests) :
         /\ fn' = f
         /\ req' = [r EXCEPT !.method = a[1], !.authHeader = a[2]]
  /\ pc' = "start"
  /\ UNCHANGED <<pgEnv, dbRows, aggVars, cfgVars, uiVars, connState, connectCalled, endCalled, issued, loc,
                 dataState, countState, resp, fault>>

RawOptions ==
  /\ pc = "start" /\ fn = "raw" /\ req.method = "OPTIONS"
  /\ Return([NoResp EXCEPT !.status = 200])
  /\ UNCHANGED <<fn, req, pgEnv, dbRows, aggVars, cfgVars, uiVars, connState, connectCalled, endCalled, issued, loc,
                 dataState, countState, fault>>

RawAuthHeader ==
  /\ pc = "start" /\ fn = "raw" /\ req.method # "OPTIONS"
  /\ IF ~req.authHeader
     THEN Return(ErrorResp(401, "Authorization header required"))
     ELSE pc' = "getUser" /\ UNCHANGED resp
  /\ UNCHANGED <<fn, req, pgEnv, dbRows, aggVars, cfgVars, uiVars, connState, connectCalled, endCalled, issued, loc,
                 dataState, countState, fault>>

\* supabaseClient.auth.getUser(token): a user, an error, or a rejected promise
RawGetUser ==
  /\ pc = "getUser" /\ fn = "raw"
  /\ \/ pc' = "config" /\ UNCHANGED <<resp, fault>>
     \/ Return(ErrorResp(401, "Invalid authentication")) /\ UNCHANGED fault
     \/ Throw("getUser")
  /\ UNCHANGED <<fn, req, pgEnv, dbRows, aggVars, cfgVars, uiVars, connState, connectCalled, endCalled, issued, loc,
                 dataState, countState>>

RawConfig ==
  /\ pc = "config" /\ fn = "raw"
  /\ IF ~pgEnv
     THEN Return(ErrorResp(500, "Database configuration incomplete"))
     ELSE pc' = "connect" /\ UNCHANGED resp
  /\ UNCHANGED <<fn, req, pgEnv, dbRows, aggVars, cfgVars, uiVars, connState, connectCalled, endCalled, issued, loc,
                 dataState, countState, fault>>

\* await client.connect()
RawConnect ==
  /\ pc = "connect" /\ fn = "raw"
  /\ connectCalled' = TRUE
  /\ \/ connState' = "open" /\ pc' = "validate" /\ UNCHANGED <<resp, fault>>
     \/ connState' = "failed" /\ Throw("connect")
  /\ UNCHANGED <<fn, req, pgEnv, dbRows, aggVars, cfgVars, uiVars, endCalled, issued, loc, dataState, countState>>

\* where the handler goes once the base queries are built
AfterBase(b, sortBy) ==
  IF b.filter # "" THEN "introspect"
  ELSE IF Truthy(sortBy) THEN "sortcheck" ELSE "run"

\* read the parameters, check the table name, declare the queries
RawValidate ==
  /\ pc = "validate" /\ fn = "raw"
  /\ LET b == ParseParams(loc, req) IN
       IF InvalidTable(req.tableName)
       THEN loc' = b /\ pc' = "endInvalid"
       ELSE /\ loc' = BaseBuilder(b, req.tableName)
            /\ pc' = AfterBase(b, req.sortBy)
  /\ UNCHANGED <<fn, req, pgEnv, dbRows, aggVars, cfgVars, uiVars, connState, connectCalled, endCalled, issued,
                 dataState, countState, resp, fault>>

\* await client.end() and the 400
RawEndInvalid ==
  /\ pc = "endInvalid" /\ fn = "raw"
  /\ endCalled' = TRUE
  /\ \/ /\ connState' = "closed"
        /\ Return([ErrorResp(400, "Invalid or missing table name")
                     EXCEPT !.allowedTables = allowedTables])
        /\ UNCHANGED fault
     \/ Throw("end") /\ UNCHANGED connState
  /\ UNCHANGED <<fn, req, pgEnv, dbRows, aggVars, cfgVars, uiVars, connectCalled, issued, loc, dataState, countState>>

introspectText ==
  <<Kw("SELECT column_name FROM information_schema.columns WHERE table_schema = 'public' AND table_name = "), Ph(1)>>

\* the column-name query and the filter clauses built from its rows
RawIntrospect ==
  /\ pc = "introspect" /\ fn = "raw"
  /\ issued' = Append(issued, Stmt("introspect", introspectText, <<PText(req.tableName)>>))
  /\ \/ /\ loc' = ApplyFilter(loc, DbColumns(req.tableName), loc.filter)
        /\ pc' = IF Truthy(req.sortBy) THEN "sortcheck" ELSE "run"
        /\ UNCHANGED <<resp, fault>>
     \/ Throw("introspect") /\ UNCHANGED loc
  /\ UNCHANGED <<fn, req, pgEnv, dbRows, aggVars, cfgVars, uiVars, connState, connectCalled, endCalled,
                 dataState, countState>>

columnCheckText ==
  <<Kw("SELECT column_name FROM information_schema.columns WHERE table_schema = 'public' AND table_name = "), Ph(1), Kw(" AND column_name = "), Ph(2)>>

\* the sort-column check and the ORDER BY clause
RawSortCheck ==
  /\ pc = "sortcheck" /\ fn = "raw"
  /\ issued' = Append(issued, Stmt("sortcheck", columnCheckText,
                                   <<PText(req.tableName), PText(req.sortBy)>>))
  /\ \/ /\ loc' = ApplySort(loc, req.sortBy, loc.sortOrder,
                            ColumnCheckRows(req.tableName, req.sortBy))
        /\ pc' = "run"
        /\ UNCHANGED <<resp, fault>>
     \/ Throw("sortcheck") /\ UNCHANGED loc
  /\ UNCHANGED <<fn, req, pgEnv, dbRows, aggVars, cfgVars, uiVars, connState, connectCalled, endCalled,
                 dataState, countState>>

\* LIMIT/OFFSET, the informacoes special case, and both queries started
RawRun ==
  /\ pc = "run" /\ fn = "raw"
  /\ loc' = AddPagination(loc, loc.pageSize, loc.offset)
  /\ issued' = issued \o FinalStatements(loc', req.tableName, req.sortBy)
  /\ dataState' = "pending"
  /\ countState' = "pending"
  /\ pc' = "await"
  /\ UNCHANGED <<fn, req, pgEnv, dbRows, aggVars, cfgVars, uiVars, connState, connectCalled, endCalled, resp, fault>>

\* the LIMIT and OFFSET parameters of a data statement
LimitOf(st) == st.params[Len(st.params) - 1].num
OffsetOf(st) == st.params[Len(st.params)].num

\* the store runs LIMIT/OFFSET only with non-negative integers
DbAccepts(st) ==
  /\ IsInt(LimitOf(st)) /\ LimitOf(st).n >= 0
  /\ IsInt(OffsetOf(st)) /\ OffsetOf(st).n >= 0

Min(a, b) == IF a <= b THEN a ELSE b
Max(a, b) == IF a >= b THEN a ELSE b

\* rows a LIMIT limit OFFSET offset query returns out of n matching rows
DbPageRows(n, limit, offset) == Min(limit, Max(0, n - offset))

\* the data statement get-raw-data has in flight
DataStmt == CHOOSE st \in Range(issued) : st.kind = "data"

\* the rows matching the request: read by the first of the two queries that
\* runs, and the same for the second
SourceRows(other) == IF other = "pending" THEN 0..MaxRows ELSE {dbRows}

\* faulty variant: the first query to resolve settles the pair
AfterResolveFirst(other) == "end"

\* Promise.all after one query resolved: settled when the other one has resolved
AfterResolve(other) == IF other = "ok" THEN "end" ELSE "await"

\* Promise.all: resolved when both resolved, rejected at the first rejection
RawDataDone ==
  /\ pc = "await" /\ fn = "raw" /\ dataState = "pending"
  /\ \/ /\ DbAccepts(DataStmt)
        /\ dataState' = "ok"
        /\ dbRows' \in SourceRows(countState)
        /\ loc' = [loc EXCEPT !.dataRows =
                     DbPageRows(dbRows', LimitOf(DataStmt).n, OffsetOf(DataStmt).n)]
        /\ pc' = AfterResolve(countState)
        /\ UNCHANGED <<resp, fault>>
     \/ dataState' = "err" /\ Throw("data") /\ UNCHANGED <<loc, dbRows>>
  /\ UNCHANGED <<fn, req, pgEnv, aggVars, cfgVars, uiVars, connState, connectCalled, endCalled, issued,
                 countState>>

RawCountDone ==
  /\ pc = "await" /\ fn = "raw" /\ countState = "pending"
  /\ \/ /\ countState' = "ok"
        /\ dbRows' \in SourceRows(dataState)
        /\ loc' = [loc EXCEPT !.totalRows = dbRows']
        /\ pc' = AfterResolve(dataState)
        /\ UNCHANGED <<resp, fault>>
     \/ countState' = "err" /\ Throw("count") /\ UNCHANGED <<loc, dbRows>>
  /\ UNCHANGED <<fn, req, pgEnv, aggVars, cfgVars, uiVars, connState, connectCalled, endCalled, issued,
                 dataState>>

\* the meta object of the success response
ResponseMeta(b, r) ==
  [totalRows |-> b.totalRows,
   totalPages |-> JsCeilDiv(b.totalRows, b.pageSize),
   currentPage |-> b.page,
   pageSize |-> b.pageSize,
   tableName |-> r.tableName,
   filter |-> b.filter,
   sortBy |-> r.sortBy,
   sortOrder |-> b.sortOrder]

\* await client.end() and the success response
RawEndRespond ==
  /\ pc = "end" /\ fn = "raw"
  /\ endCalled' = TRUE
  /\ \/ /\ connState' = "closed"
        /\ Return([NoResp EXCEPT !.status = 200, !.success = TRUE,
                                 !.dataLen = loc.dataRows,
                                 !.meta = ResponseMeta(loc, req)])
        /\ UNCHANGED fault
     \/ Throw("end") /\ UNCHANGED connState
  /\ UNCHANGED <<fn, req, pgEnv, dbRows, aggVars, cfgVars, uiVars, connectCalled, issued, loc, dataState, countState>>

\* --------------------------------------------------- get-sensor-data: handler
SensorOptions ==
  /\ pc = "start" /\ fn = "sensor" /\ req.method = "OPTIONS"
  /\ Return([NoResp EXCEPT !.status = 200])
  /\ UNCHANGED <<fn, req, pgEnv, dbRows, aggVars, cfgVars, uiVars, connState, connectCalled, endCalled, issued, loc,
                 dataState, countState, fault>>

\* missingVars.length > 0
SensorEnv ==
  /\ pc = "start" /\ fn = "sensor" /\ req.method # "OPTIONS"
  /\ IF ~pgEnv
     THEN Return(ErrorResp(500, "Database configuration error"))
     ELSE pc' = "authHeader" /\ UNCHANGED resp
  /\ UNCHANGED <<fn, req, pgEnv, dbRows, aggVars, cfgVars, uiVars, connState, connectCalled, endCalled, issued, loc,
                 dataState, countState, fault>>

SensorAuthHeader ==
  /\ pc = "authHeader" /\ fn = "sensor"
  /\ IF ~req.authHeader
     THEN Return(ErrorResp(401, "Authorization header required"))
     ELSE pc' = "getUser" /\ UNCHANGED resp
  /\ UNCHANGED <<fn, req, pgEnv, dbRows, aggVars, cfgVars, uiVars, connState, connectCalled, endCalled, issued, loc,
                 dataState, countState, fault>>

SensorGetUser ==
  /\ pc = "getUser" /\ fn = "sensor"
  /\ \/ pc' = "connect" /\ UNCHANGED <<resp, fault>>
     \/ Return(ErrorResp(401, "Invalid authentication")) /\ UNCHANGED fault
     \/ Throw("getUser")
  /\ UNCHANGED <<fn, req, pgEnv, dbRows, aggVars, cfgVars, uiVars, connState, connectCalled, endCalled, issued, loc,
                 dataState, countState>>

\* try { await client.connect() } catch (dbError) { return 500 }
SensorConnect ==
  /\ pc = "connect" /\ fn = "sensor"
  /\ connectCalled' = TRUE
  /\ \/ connState' = "open" /\ pc' = "query" /\ UNCHANGED <<resp, fault>>
     \/ /\ connState' = "failed"
        /\ fault' = "connect"
        /\ Return(ErrorResp(500, "Database connection failed"))
  /\ UNCHANGED <<fn, req, pgEnv, dbRows, aggVars, cfgVars, uiVars, endCalled, issued, loc, dataState, countState>>

\* LIMIT 100
SensorRowLimit == 100

\* readings of the last 24 hours that match the request
WindowSizes == {0, 1, SensorRowLimit, SensorRowLimit + 1}

\* the readings of the last 24 hours, of one grupo when grupo_id is given
SensorQueryText(grupoId) ==
  <<Kw("SELECT i.id, i.sensor, i.valor, i.grupo, i.data_registro, i.dispositivo, s.descricao as sensor_descricao, s.tipo as sensor_tipo, g.nome as grupo_nome, g.localizacao as grupo_localizacao FROM public.informacoes i LEFT JOIN public.sensor s ON i.sensor = s.id LEFT JOIN public.grupo g ON i.grupo = g.id WHERE i.data_registro >= NOW() - INTERVAL '24 hours'")>>
  \o (IF grupoId # <<>> THEN <<Kw(" AND i.grupo = "), NumLit(ParseInt(grupoId))>> ELSE <<>>)
  \o <<Kw(" ORDER BY i.data_registro DESC"), Kw(" LIMIT "), NumLit(NumInt(SensorRowLimit))>>

\* result.rows.length: the window, cut at the row limit of the statement
SensorResultRows(text, window) ==
  IF \E i \in DOMAIN text : text[i] = Kw(" LIMIT ")
  THEN Min(window, text[(CHOOSE i \in DOMAIN text : text[i] = Kw(" LIMIT ")) + 1].n)
  ELSE window

\* client.query(query); on failure client.end() and a 500
SensorQuery ==
  /\ pc = "query" /\ fn = "sensor"
  /\ issued' = Append(issued, Stmt("sensor", SensorQueryText(req.grupoId), <<>>))
  /\ \/ /\ pc' = "end"
        /\ dbRows' \in WindowSizes
        /\ loc' = [loc EXCEPT !.dataRows =
                     SensorResultRows(SensorQueryText(req.grupoId), dbRows')]
        /\ UNCHANGED <<connState, endCalled, resp, fault>>
     \/ /\ endCalled' = TRUE
        /\ \/ /\ connState' = "closed"
              /\ fault' = "query"
              /\ Return(ErrorResp(500, "Database query failed"))
           \/ Throw("end") /\ UNCHANGED connState
        /\ UNCHANGED <<dbRows, loc>>
  /\ UNCHANGED <<fn, req, pgEnv, aggVars, cfgVars, uiVars, connectCalled, dataState, countState>>

\* try { await client.end() } catch { warn }, then the aggregated response
SensorEndRespond ==
  /\ pc = "end" /\ fn = "sensor"
  /\ endCalled' = TRUE
  /\ \/ connState' = "closed" /\ UNCHANGED fault
     \/ fault' = "end" /\ UNCHANGED connState
  /\ Return([NoResp EXCEPT !.status = 200, !.success = TRUE, !.dataLen = loc.dataRows])
  /\ UNCHANGED <<fn, req, pgEnv, dbRows, aggVars, cfgVars, uiVars, connectCalled, issued, loc, dataState, countState>>

\* ------------------------------------------------------------ specification
Next ==
  \/ Receive
  \/ RawOptions
  \/ RawAuthHeader
  \/ RawGetUser
  \/ RawConfig
  \/ RawConnect
  \/ RawValidate
  \/ RawEndInvalid
  \/ RawIntrospect
  \/ RawSortCheck
  \/ RawRun
  \/ RawDataDone
  \/ RawCountDone
  \/ RawEndRespond
  \/ SensorOptions
  \/ SensorEnv
  \/ SensorAuthHeader
  \/ SensorGetUser
  \/ SensorConnect
  \/ SensorQuery
  \/ SensorEndRespond

Spec == Init /\ [][Next]_vars

\* ------------------------------------------- get-sensor-data: aggregation
\* most rows in a query result handed to the aggregation
MaxAggRows == 11
\* largest interleaving pattern of two sensors in a query result
MaxPattern == 2
\* sensor.readings.slice(0, 10)
ReadingsCap == 10

\* a JS number that is not an integer, as a reduced fraction n / d with d > 1
Frac(n, d) == [k |-> "frac", n |-> n, d |-> d]
IsNum(x) == x.k \in {"int", "frac"}
NumOf(x) == x.n
DenOf(x) == IF x.k = "frac" THEN x.d ELSE 1

Abs(a) == IF a < 0 THEN -a ELSE a

RECURSIVE Gcd(_, _)
Gcd(a, b) == IF b = 0 THEN a ELSE Gcd(b, a % b)

RECURSIVE Pow10(_)
Pow10(e) == IF e = 0 THEN 1 ELSE 10 * Pow10(e - 1)

\* the number a / b for b > 0
Ratio(a, b) ==
  LET g == Gcd(Abs(a), b)
  IN  IF b \div g = 1 THEN NumInt(a \div g) ELSE Frac(a \div g, b \div g)

\* a + b
JsAdd(x, y) ==
  IF IsNum(x) /\ IsNum(y)
  THEN Ratio(NumOf(x) * DenOf(y) + NumOf(y) * DenOf(x), DenOf(x) * DenOf(y))
  ELSE NaN

\* a < b for two numbers
JsLess(x, y) == NumOf(x) * DenOf(y) < NumOf(y) * DenOf(x)

\* a / n for a length n > 0
JsDivide(x, n) == IF IsNum(x) THEN Ratio(NumOf(x), DenOf(x) * n) ELSE NaN

\* x || 0: NaN and 0 are falsy
JsOrZero(x) == IF IsNum(x) /\ NumOf(x) # 0 THEN x ELSE NumInt(0)

\* a null column value; `${null}` and String(null) are the text null
NullSeq == <<Null>>
NullText == <<"n", "u", "l", "l">>
TemplateText(s) == IF s = NullSeq THEN NullText ELSE s

\* parseFloat(v): leading blanks, an optional sign, digits, an optional
\* fraction; NaN when no digit is found (inputs carry no exponent)
ParseFloat(v) ==
  LET t    == SkipSpaces(TemplateText(v))
      neg  == t # <<>> /\ Head(t) = "-"
      sgn  == t # <<>> /\ Head(t) \in {"-", "+"}
      body == IF sgn THEN Tail(t) ELSE t
      ds   == DigitPrefix(body)
      rest == SubSeq(body, Len(ds) + 1, Len(body))
      fs   == IF rest # <<>> /\ Head(rest) = "." THEN DigitPrefix(Tail(rest)) ELSE <<>>
  IN  IF ds = <<>> /\ fs = <<>> THEN NaN
      ELSE Ratio((IF neg THEN -1 ELSE 1)
                   * (DigitsValue(ds, 0) * Pow10(Len(fs)) + DigitsValue(fs, 0)),
                 Pow10(Len(fs)))

LowerChar(c) ==
  IF \E i \in DOMAIN UpperChars : UpperChars[i] = c
  THEN LowerChars[CHOOSE i \in DOMAIN UpperChars : UpperChars[i] = c]
  ELSE c

\* String.prototype.toLowerCase
ToLowerCase(s) == [i \in DOMAIN s |-> LowerChar(s[i])]

\* String.prototype.includes
Includes(s, sub) ==
  \E i \in 0..(Len(s) - Len(sub)) : SubSeq(s, i + 1, i + Len(sub)) = sub

\* the keywords of the classification chain
temperatura == <<"t", "e", "m", "p", "e", "r", "a", "t", "u", "r", "a">>
temp == <<"t", "e", "m", "p">>
umidade == <<"u", "m", "i", "d", "a", "d", "e">>
humidity == <<"h", "u", "m", "i", "d", "i", "t", "y">>
agua == <<"a", "g", "u", "a">>
water == <<"w", "a", "t", "e", "r">>
energia == <<"e", "n", "e", "r", "g", "i", "a">>
energy == <<"e", "n", "e", "r", "g", "y">>
racao == <<"r", "a", "c", "a", "o">>
feed == <<"f", "e", "e", "d">>
alimento == <<"a", "l", "i", "m", "e", "n", "t", "o">>
peso == <<"p", "e", "s", "o">>
weight == <<"w", "e", "i", "g", "h", "t">>
balanca == <<"b", "a", "l", "a", "n", "c", "a">>

Categories == {"temperature", "humidity", "water", "energy", "feed", "weight"}

\* sensors as the LEFT JOINs describe them: id, tipo, descricao, grupo, nome
SensorRow(id, tipo, descricao, grupo, nome) ==
  [id |-> id, tipo |-> tipo, descricao |-> descricao, grupo |-> grupo, grupo_nome |-> nome]

Catalog ==
  {SensorRow(1, "Celsius", <<"T", "e", "m", "p", "e", "r", "a", "t", "u", "r", "a">>, 1, "Aviario 1"),
   SensorRow(1, "Celsius", <<"T", "e", "m", "p", "e", "r", "a", "t", "u", "r", "a">>, 2, "Aviario 2"),
   SensorRow(2, "Percentual", <<"U", "m", "i", "d", "a", "d", "e">>, 1, "Aviario 1"),
   SensorRow(3, "Percentual", <<"U", "m", "i", "d", " ", "T", "e", "m", "p">>, 1, "Aviario 1"),
   SensorRow(4, "Litros", <<"A", "g", "u", "a">>, 1, "Aviario 1"),
   SensorRow(5, "kW", <<"E", "n", "e", "r", "g", "i", "a">>, 1, "Aviario 1"),
   SensorRow(6, "Kg", <<"R", "a", "c", "a", "o">>, 1, "Aviario 1"),
   SensorRow(7, "g", <<"P", "E", "S", "O">>, 1, "Aviario 1"),
   SensorRow(8, "V", <<"B", "a", "t", "e", "r", "i", "a">>, 1, "Aviario 1"),
   SensorRow(9, Null, NullSeq, 1, Null)}

\* the valor column of successive rows, repeated in a cycle
ValueCycles ==
  {<<<<"3">>, <<"1">>, <<"2">>>>,
   <<<<"0">>, <<"2">>>>,
   <<<<"2", ".", "5">>, <<"1">>, <<"3">>>>,
   <<<<"1">>, <<"x">>, <<"2">>>>,
   <<NullSeq, <<"-", "1">>>>}

\* which of two sensors row i belongs to: pattern 0 is one sensor only,
\* pattern p > 0 gives every (p+1)-th row to the second sensor
Owner(i, pat) == IF pat > 0 /\ i % (pat + 1) = 0 THEN 2 ELSE 1

\* result.rows: n rows, newest first
ResultRows(n, s1, s2, pat, cyc) ==
  [i \in 1..n |->
     LET s == IF Owner(i, pat) = 1 THEN s1 ELSE s2
     IN  [sensor |-> s.id, sensor_descricao |-> s.descricao, sensor_tipo |-> s.tipo,
          grupo |-> s.grupo, grupo_nome |-> s.grupo_nome,
          valor |-> cyc[((i - 1) % Len(cyc)) + 1],
          data_registro |-> n - i + 1, dispositivo |-> "esp32"]]

\* the sensors that share a result with another one: the same description in
\* another grupo, a type and a description of different categories, and two
\* that no branch matches
SecondSensors == {s \in Catalog : s.grupo = 2 \/ s.id \in {3, 8, 9}}

AggInputs ==
  {ResultRows(n, s1, s2, pat, cyc) :
     n \in 0..MaxAggRows, s1 \in Catalog, s2 \in SecondSensors,
     pat \in 0..MaxPattern, cyc \in ValueCycles}

\* faulty variant: the key is the description alone
SensorKeyOfNameOnly(row) == TemplateText(row.sensor_descricao)

\* `${row.sensor_descricao}_${row.grupo}`
SensorKey(row) ==
  TemplateText(row.sensor_descricao) \o <<"_">> \o <<DigitChars[row.grupo + 1]>>

NewGroup(row) ==
  [key |-> SensorKey(row),
   sensor_id |-> row.sensor, sensor_name |-> row.sensor_descricao,
   sensor_type |-> row.sensor_tipo,
   grupo_id |-> row.grupo, grupo_name |-> row.grupo_nome,
   latest_value |-> row.valor, latest_timestamp |-> row.data_registro,
   readings |-> <<>>]

Reading(row) ==
  [value |-> ParseFloat(row.valor), timestamp |-> row.data_registro,
   dispositivo |-> row.dispositivo]

\* one iteration of result.rows.forEach; sensorData keeps insertion order
GroupRow(data, row) ==
  LET key   == SensorKey(row)
      known == \E i \in DOMAIN data : data[i].key = key
      d1    == IF known THEN data ELSE Append(data, NewGroup(row))
  IN  [i \in DOMAIN d1 |->
         IF d1[i].key = key
         THEN [d1[i] EXCEPT !.readings = Append(@, Reading(row))]
         ELSE d1[i]]

\* faulty variant: an average of no readings, 0 / 0
DefaultMetricUndefined ==
  [current |-> NumInt(0), average |-> NaN, min |-> NumInt(0), max |-> NumInt(0),
   readings |-> <<>>]

\* { current: 0, average: 0, min: 0, max: 0, readings: [] }
DefaultMetric ==
  [current |-> NumInt(0), average |-> NumInt(0), min |-> NumInt(0), max |-> NumInt(0),
   readings |-> <<>>]

InitialMetrics == [c \in Categories |-> DefaultMetric]

\* sensor.readings.map(r => r.value)
Values(sensor) == [i \in DOMAIN sensor.readings |-> sensor.readings[i].value]

\* readings.reduce((a, b) => a + b, 0)
RECURSIVE SumValues(_, _)
SumValues(vs, acc) ==
  IF vs = <<>> THEN acc ELSE SumValues(Tail(vs), JsAdd(acc, Head(vs)))

Average(vs) == JsDivide(SumValues(vs, NumInt(0)), Len(vs))

\* Math.min(...readings): NaN when any reading is NaN
MathMin(vs) ==
  IF \E i \in DOMAIN vs : ~IsNum(vs[i]) THEN NaN
  ELSE CHOOSE v \in Range(vs) : \A w \in Range(vs) : ~JsLess(w, v)

\* Math.max(...readings)
MathMax(vs) ==
  IF \E i \in DOMAIN vs : ~IsNum(vs[i]) THEN NaN
  ELSE CHOOSE v \in Range(vs) : \A w \in Range(vs) : ~JsLess(v, w)

\* faulty variant: the reading with the last position
CurrentLast(vs) == JsOrZero(vs[Len(vs)])

\* readings[0] || 0
Current(vs) == JsOrZero(vs[1])

\* faulty variant: every reading is kept
SensorReadingsAll(sensor) == sensor.readings

\* sensor.readings.slice(0, 10)
SensorReadings(sensor) ==
  SubSeq(sensor.readings, 1, Min(ReadingsCap, Len(sensor.readings)))

Metric(sensor) ==
  LET vs == Values(sensor)
  IN  [current |-> Current(vs), average |-> Average(vs),
       min |-> MathMin(vs), max |-> MathMax(vs),
       readings |-> SensorReadings(sensor)]

\* sensor.sensor_name?.toLowerCase().includes(keyword)
NameIncludes(sensor, keyword) ==
  /\ sensor.sensor_name # NullSeq
  /\ Includes(ToLowerCase(sensor.sensor_name), keyword)

\* the condition of each branch of the chain
Matches(sensor, c) ==
  CASE c = "temperature" ->
         \/ sensor.sensor_type = "Celsius"
         \/ NameIncludes(sensor, temperatura) \/ NameIncludes(sensor, temp)
    [] c = "humidity" ->
         \/ sensor.sensor_type = "Percentual"
         \/ NameIncludes(sensor, umidade) \/ NameIncludes(sensor, humidity)
    [] c = "water" ->
         \/ sensor.sensor_type = "Litros"
         \/ NameIncludes(sensor, agua) \/ NameIncludes(sensor, water)
    [] c = "energy" ->
         \/ sensor.sensor_type = "kW" \/ sensor.sensor_type = "kw"
         \/ NameIncludes(sensor, energia) \/ NameIncludes(sensor, energy)
    [] c = "feed" ->
         \/ sensor.sensor_type = "Kg" \/ sensor.sensor_type = "kg"
         \/ NameIncludes(sensor, racao) \/ NameIncludes(sensor, feed)
         \/ NameIncludes(sensor, alimento)
    [] c = "weight" ->
         \/ NameIncludes(sensor, peso) \/ NameIncludes(sensor, weight)
         \/ NameIncludes(sensor, balanca)

\* the branches in the order of the chain
ChainOrder == <<"temperature", "humidity", "water", "energy", "feed", "weight">>

\* faulty variant: independent ifs, every matching branch runs
TakenBranchesAll(sensor) == {c \in Categories : Matches(sensor, c)}

\* if / else if: the first branch whose condition holds, if any
TakenBranches(sensor) ==
  LET hits == {i \in DOMAIN ChainOrder : Matches(sensor, ChainOrder[i])}
  IN  {ChainOrder[i] : i \in {j \in hits : \A h \in hits : j <= h}}

\* faulty variant: a slot that was written keeps its first group
WriteMetricsKeepFirst(m, sensor) ==
  IF Len(sensor.readings) = 0 THEN m
  ELSE [c \in Categories |->
          IF c \in TakenBranches(sensor) /\ m[c].readings = <<>>
          THEN Metric(sensor) ELSE m[c]]

\* one iteration of Object.values(sensorData).forEach
WriteMetrics(m, sensor) ==
  IF Len(sensor.readings) = 0 THEN m
  ELSE [c \in Categories |-> IF c \in TakenBranches(sensor) THEN Metric(sensor) ELSE m[c]]

\* after the query returned its rows and the connection was closed
AggInit ==
  /\ fn = "sensor"
  /\ pc = "group"
  /\ req \in {r \in SensorRequests : r.grupoId = <<>>}
  /\ pgEnv = TRUE
  /\ connState = "closed"
  /\ connectCalled = TRUE
  /\ endCalled = TRUE
  /\ issued = <<Stmt("sensor", SensorQueryText(req.grupoId), <<>>)>>
  /\ loc = NoLoc
  /\ dataState = "none"
  /\ countState = "none"
  /\ resp = NoResp
  /\ fault = "none"
  /\ dbRows = 0
  /\ resultRows \in AggInputs
  /\ sensorData = <<>>
  /\ metrics = <<>>
  /\ aggI = 0
  /\ cfgTable = <<>>
  /\ cfgProc = <<>>
  /\ ui = NoUi
  /\ uiFetches = {}

handlerVars ==
  <<fn, req, pgEnv, connState, connectCalled, endCalled, issued, loc, dataState,
    countState, fault, dbRows, cfgVars, uiVars>>

\* result.rows.forEach: the next row
AggGroupRow ==
  /\ pc = "group" /\ fn = "sensor" /\ aggI < Len(resultRows)
  /\ sensorData' = GroupRow(sensorData, resultRows[aggI + 1])
  /\ aggI' = aggI + 1
  /\ UNCHANGED <<handlerVars, pc, resp, resultRows, metrics>>

\* const metrics = { ... }
AggInitMetrics ==
  /\ pc = "group" /\ fn = "sensor" /\ aggI = Len(resultRows)
  /\ metrics' = InitialMetrics
  /\ aggI' = 0
  /\ pc' = "reduce"
  /\ UNCHANGED <<handlerVars, resp, resultRows, sensorData>>

\* Object.values(sensorData).forEach: the next group
AggReduceGroup ==
  /\ pc = "reduce" /\ fn = "sensor" /\ aggI < Len(sensorData)
  /\ metrics' = WriteMetrics(metrics, sensorData[aggI + 1])
  /\ aggI' = aggI + 1
  /\ UNCHANGED <<handlerVars, pc, resp, resultRows, sensorData>>

\* the success response with sensors, metrics and total_readings
AggRespond ==
  /\ pc = "reduce" /\ fn = "sensor" /\ aggI = Len(sensorData)
  /\ Return([NoResp EXCEPT !.status = 200, !.success = TRUE,
                           !.dataLen = Len(resultRows)])
  /\ UNCHANGED <<handlerVars, aggVars>>

AggNext ==
  \/ AggGroupRow
  \/ AggInitMetrics
  \/ AggReduceGroup
  \/ AggRespond

SpecAgg == AggInit /\ [][AggNext]_vars

\* ------------------------------------- get-app-configs / update-app-configs
\* concurrent requests to the two functions
MaxCfgProcs == 2

CfgProcs == 1..MaxCfgProcs

\* the users a token resolves to; admin is what the header documentation of
\* the two functions calls an administrator
CfgUsers ==
  {[email |-> "admin@fordox", admin |-> TRUE],
   [email |-> "worker@fordox", admin |-> FALSE]}

NoUser == [email |-> Null, admin |-> FALSE]

\* (function, method, Authorization header present)
CfgArrivals ==
  {<<"get", "OPTIONS", FALSE>>, <<"get", "GET", FALSE>>, <<"get", "GET", TRUE>>,
   <<"update", "OPTIONS", FALSE>>, <<"update", "GET", TRUE>>,
   <<"update", "POST", FALSE>>, <<"update", "POST", TRUE>>, <<"update", "PUT", TRUE>>}

CfgIdle ==
  [fn |-> "none", pc |-> "idle", method |-> "", authHeader |-> FALSE,
   user |-> NoUser, existing |-> 0, selectFailed |-> FALSE, wrote |-> FALSE,
   status |-> 0, error |-> ""]

\* the handler state of get-raw-data and get-sensor-data with no request
HandlerIdle ==
  /\ fn = "none" /\ pc = "idle" /\ req = NoRequest /\ pgEnv = TRUE
  /\ connState = "none" /\ connectCalled = FALSE /\ endCalled = FALSE
  /\ issued = <<>> /\ loc = NoLoc
  /\ dataState = "none" /\ countState = "none"
  /\ resp = NoResp /\ fault = "none" /\ dbRows = 0
  /\ resultRows = <<>> /\ sensorData = <<>> /\ metrics = <<>> /\ aggI = 0

\* an empty app_configs table and no request yet
CfgInit ==
  /\ HandlerIdle
  /\ cfgTable = <<>>
  /\ cfgProc = [p \in CfgProcs |-> CfgIdle]
  /\ ui = NoUi
  /\ uiFetches = {}

cfgFrame == <<fn, pc, req, pgEnv, connState, connectCalled, endCalled, issued, loc,
              dataState, countState, resp, fault, dbRows, aggVars, uiVars>>

\* return new Response(..., { status })
CfgReturn(p, status, error) ==
  cfgProc' = [cfgProc EXCEPT ![p].pc = "done", ![p].status = status, ![p].error = error]

CfgReceive(p) ==
  /\ cfgProc[p].pc = "idle"
  /\ \E a \in CfgArrivals :
       cfgProc' = [cfgProc EXCEPT ![p].fn = a[1], ![p].method = a[2],
                                  ![p].authHeader = a[3], ![p].pc = "start"]
  /\ UNCHANGED <<cfgTable, cfgFrame>>

\* OPTIONS, the method check of update-app-configs, the Authorization header
CfgStart(p) ==
  /\ cfgProc[p].pc = "start"
  /\ IF cfgProc[p].method = "OPTIONS" THEN CfgReturn(p, 200, "")
     ELSE IF cfgProc[p].fn = "update" /\ cfgProc[p].method \notin {"POST", "PUT"}
       THEN CfgReturn(p, 405, "Method not allowed")
     ELSE IF ~cfgProc[p].authHeader
       THEN CfgReturn(p, 401, "Authorization header required")
     ELSE cfgProc' = [cfgProc EXCEPT ![p].pc = "getUser"]
  /\ UNCHANGED <<cfgTable, cfgFrame>>

\* supabaseClient.auth.getUser(token): a user, an error, or a rejected promise
CfgGetUser(p) ==
  /\ cfgProc[p].pc = "getUser"
  /\ \/ \E u \in CfgUsers :
          cfgProc' = [cfgProc EXCEPT ![p].user = u,
                        ![p].pc = IF cfgProc[p].fn = "update" THEN "body" ELSE "select"]
     \/ CfgReturn(p, 401, "Invalid authentication")
     \/ CfgReturn(p, 500, "Internal server error")
  /\ UNCHANGED <<cfgTable, cfgFrame>>

\* await req.json()
CfgReadBody(p) ==
  /\ cfgProc[p].pc = "body"
  /\ \/ cfgProc' = [cfgProc EXCEPT ![p].pc = "select"]
     \/ CfgReturn(p, 500, "Internal server error")
  /\ UNCHANGED <<cfgTable, cfgFrame>>

\* .select().single(): the id of the row when the table holds exactly one
\* row, no data (0) otherwise
SingleRow(table) == IF Len(table) = 1 THEN table[1].id ELSE 0

\* the lookup of the existing row; update-app-configs ignores its error,
\* get-app-configs throws every error but PGRST116 (no single row)
CfgSelect(p) ==
  /\ cfgProc[p].pc = "select"
  /\ \/ LET id == SingleRow(cfgTable)
        IN  IF id # 0 /\ cfgProc[p].fn = "get"
            THEN CfgReturn(p, 200, "")
            ELSE cfgProc' = [cfgProc EXCEPT ![p].existing = id,
                               ![p].pc = IF id # 0 THEN "update" ELSE "insert"]
     \/ IF cfgProc[p].fn = "get"
        THEN cfgProc' = [cfgProc EXCEPT ![p].selectFailed = TRUE, ![p].pc = "done",
                           ![p].status = 500, ![p].error = "Internal server error"]
        ELSE cfgProc' = [cfgProc EXCEPT ![p].selectFailed = TRUE, ![p].pc = "insert"]
  /\ UNCHANGED <<cfgTable, cfgFrame>>

\* .update(updateData).eq('id', existingConfig.id)
CfgUpdate(p) ==
  /\ cfgProc[p].pc = "update"
  /\ \/ /\ cfgTable' = [i \in DOMAIN cfgTable |->
                         IF cfgTable[i].id = cfgProc[p].existing
                         THEN [cfgTable[i] EXCEPT !.updated_by = cfgProc[p].user.email]
                         ELSE cfgTable[i]]
        /\ cfgProc' = [cfgProc EXCEPT ![p].wrote = TRUE, ![p].pc = "done", ![p].status = 200]
     \/ CfgReturn(p, 500, "Internal server error") /\ UNCHANGED cfgTable
  /\ UNCHANGED cfgFrame

\* .insert(defaultConfig) / .insert(updateData) with admin_email = user.email
CfgInsert(p) ==
  /\ cfgProc[p].pc = "insert"
  /\ \/ /\ cfgTable' = Append(cfgTable,
                         [id |-> Len(cfgTable) + 1,
                          admin_email |-> cfgProc[p].user.email,
                          updated_by |-> cfgProc[p].user.email])
        /\ cfgProc' = [cfgProc EXCEPT ![p].wrote = (cfgProc[p].fn = "update"),
                                      ![p].pc = "done", ![p].status = 200]
     \/ CfgReturn(p, 500, "Internal server error") /\ UNCHANGED cfgTable
  /\ UNCHANGED cfgFrame

CfgNext ==
  \E p \in CfgProcs :
    \/ CfgReceive(p)
    \/ CfgStart(p)
    \/ CfgGetUser(p)
    \/ CfgReadBody(p)
    \/ CfgSelect(p)
    \/ CfgUpdate(p)
    \/ CfgInsert(p)

SpecCfg == CfgInit /\ [][CfgNext]_vars

\* ------------------------------------------------------------ RawDataViewer
\* user events before the viewer is left alone
MaxUiEvents == 3

\* const pageSize = 10
UiPageSize == 10

UiTables == {"informacoes", "sensor"}
UiFilterTexts == {"", "a", "ab"}
UiSortColumns == {"id"}

\* rows of the table that match the filter, as the server would count them
UiTotalRows(table, filter) ==
  IF filter = "ab" THEN 0
  ELSE IF table = "sensor" THEN 3
  ELSE IF filter = "a" THEN 12
  ELSE 15

UiCeilDiv(a, b) == (a + b - 1) \div b

\* result.data.length and result.meta.totalPages of a getRawData call
UiResult(params) ==
  LET total == UiTotalRows(params.table, params.filter)
      before == (params.page - 1) * UiPageSize
  IN  [rows |-> IF total - before > UiPageSize THEN UiPageSize
                ELSE IF total - before > 0 THEN total - before ELSE 0,
       totalPages |-> UiCeilDiv(total, UiPageSize)]

\* the arguments fetchData passes to rawDataAPI.getRawData
UiParams(u) ==
  [table |-> u.selectedTable, page |-> u.currentPage, filter |-> u.filterText,
   sortBy |-> u.sortBy, sortOrder |-> u.sortOrder]

\* the useState initial values
UiMounted ==
  [mounted |-> TRUE, selectedTable |-> "informacoes", rows |-> 0, totalPages |-> 0,
   hasMeta |-> FALSE, shown |-> Null, loading |-> TRUE, error |-> Null,
   filterText |-> "", currentPage |-> 1, sortBy |-> Null, sortOrder |-> "ASC",
   events |-> 0]

\* the component after mounting: the effect has called fetchData once
UiInit ==
  /\ HandlerIdle
  /\ cfgTable = <<>>
  /\ cfgProc = <<>>
  /\ ui = UiMounted
  /\ uiFetches = {[id |-> 0, params |-> UiParams(UiMounted), cause |-> "mount"]}

uiFrame == <<fn, pc, req, pgEnv, connState, connectCalled, endCalled, issued, loc,
             dataState, countState, resp, fault, dbRows, aggVars, cfgVars>>

\* the render after a handler's state updates: the effect calls fetchData when
\* a dependency changed; fetchData sets loading, clears error and awaits
UiRender(new, cause) ==
  /\ ui.events < MaxUiEvents
  /\ IF UiParams(new) # UiParams(ui)
     THEN /\ ui' = [new EXCEPT !.loading = TRUE, !.error = Null, !.events = ui.events + 1]
          /\ uiFetches' = uiFetches \cup
               {[id |-> ui.events + 1, params |-> UiParams(new), cause |-> cause]}
     ELSE /\ ui' = [new EXCEPT !.events = ui.events + 1]
          /\ UNCHANGED uiFetches
  /\ UNCHANGED uiFrame

\* the table dropdown, rendered when not loading
UiTableChange ==
  /\ ~ui.loading
  /\ \E t \in UiTables \ {ui.selectedTable} :
       UiRender([ui EXCEPT !.selectedTable = t, !.currentPage = 1, !.filterText = "",
                           !.sortBy = Null, !.sortOrder = "ASC"], "table")

\* typing in the filter input, rendered always
UiFilterChange ==
  \E text \in UiFilterTexts \ {ui.filterText} :
    UiRender([ui EXCEPT !.filterText = text, !.currentPage = 1], "filter")

\* a column header of the data table, rendered when not loading and data is
\* not empty
UiSort ==
  /\ ~ui.loading /\ ui.rows > 0
  /\ \E columnName \in UiSortColumns :
       UiRender(IF ui.sortBy = columnName
                THEN [ui EXCEPT !.sortOrder = IF ui.sortOrder = "ASC" THEN "DESC" ELSE "ASC",
                                !.currentPage = 1]
                ELSE [ui EXCEPT !.sortBy = columnName, !.sortOrder = "ASC",
                                !.currentPage = 1], "sort")

\* the 'Limpar' button next to the input, rendered while filterText is not empty
UiClear ==
  /\ ui.filterText # ""
  /\ UiRender([ui EXCEPT !.filterText = ""], "filter")

\* the 'Limpar filtro' button of the empty-result message
UiClearEmpty ==
  /\ ~ui.loading /\ ui.rows = 0 /\ ui.filterText # ""
  /\ UiRender([ui EXCEPT !.filterText = ""], "filter")

\* the pagination bar is rendered when not loading and data is not empty
UiPagination == ~ui.loading /\ ui.rows > 0

UiFirstPage ==
  /\ UiPagination /\ ui.currentPage # 1
  /\ UiRender([ui EXCEPT !.currentPage = 1], "page")

UiPrevPage ==
  /\ UiPagination /\ ui.currentPage # 1
  /\ UiRender([ui EXCEPT !.currentPage = Max(1, ui.currentPage - 1)], "page")

UiNextPage ==
  /\ UiPagination /\ ui.currentPage # ui.totalPages
  /\ UiRender([ui EXCEPT !.currentPage = Min(ui.totalPages, ui.currentPage + 1)], "page")

UiLastPage ==
  /\ UiPagination /\ ui.currentPage # ui.totalPages
  /\ UiRender([ui EXCEPT !.currentPage = ui.totalPages], "page")

\* the awaited getRawData of one fetchData call resolves: setData, setMeta,
\* and setLoading(false) in finally
UiResolve ==
  \E f \in uiFetches :
    /\ ui' = [ui EXCEPT !.rows = UiResult(f.params).rows,
                        !.totalPages = UiResult(f.params).totalPages,
                        !.hasMeta = TRUE, !.shown = f.params, !.loading = FALSE]
    /\ uiFetches' = uiFetches \ {f}
    /\ UNCHANGED uiFrame

\* the awaited getRawData rejects: setError, and setLoading(false) in finally
UiReject ==
  \E f \in uiFetches :
    /\ ui' = [ui EXCEPT !.error = "Erro ao carregar dados brutos.", !.loading = FALSE]
    /\ uiFetches' = uiFetches \ {f}
    /\ UNCHANGED uiFrame

UiNext ==
  \/ UiTableChange
  \/ UiFilterChange
  \/ UiSort
  \/ UiClear
  \/ UiClearEmpty
  \/ UiFirstPage
  \/ UiPrevPage
  \/ UiNextPage
  \/ UiLastPage
  \/ UiResolve
  \/ UiReject

SpecUI == UiInit /\ [][UiNext]_vars

\* ------------------------------------------------------------ shared terms
\* the statements of one kind that get-raw-data has passed to client.query
RawIssued(kind) ==
  {issued[i] : i \in {j \in DOMAIN issued : fn = "raw" /\ issued[j].kind = kind}}

HasToken(text, tok) == \E i \in DOMAIN text : text[i] = tok

\* the request got past the authentication and configuration checks
Admitted == fn = "raw" /\ connectCalled

\* client.connect() resolved
Connected == connState \in {"open", "closed"}

\* the statements the handler builds for request r when no awaited call throws
BuiltFor(r) ==
  LET b0 == BaseBuilder(ParseParams(NoLoc, r), r.tableName)
      b1 == IF b0.filter # ""
            THEN ApplyFilter(b0, DbColumns(r.tableName), b0.filter) ELSE b0
      b2 == IF Truthy(r.sortBy)
            THEN ApplySort(b1, r.sortBy, b1.sortOrder,
                           ColumnCheckRows(r.tableName, r.sortBy))
            ELSE b1
      b3 == AddPagination(b2, b2.pageSize, b2.offset)
  IN  FinalStatements(b3, r.tableName, r.sortBy)

\* --------------------------------------------------------------------- C1
\* C1: an admitted get-raw-data request whose tableName is missing or not in
\* {informacoes, sensor, grupo} is answered 400 with the allowed-table list,
\* and no SQL statement of any kind is issued for it.
C1_InvalidTableRejected ==
  (Admitted /\ InvalidTable(req.tableName))
    => /\ issued = <<>>
       /\ pc = "done" => /\ resp.status = 400
                         /\ resp.allowedTables = allowedTables

\* --------------------------------------------------------------------- C2
\* C2: for a get-raw-data request with a non-whitelisted tableName,
\* client.connect is never called.
C2_NoConnectForInvalidTable ==
  (fn = "raw" /\ InvalidTable(req.tableName)) => ~connectCalled

\* --------------------------------------------------------------------- C3
\* C3: in both handlers, whenever a response is returned after a successful
\* connect, client.end has been called.
C3_ConnectionReleased ==
  (pc = "done" /\ Connected) => endCalled

\* --------------------------------------------------------------------- C4
\* the requests that differ from r only in a non-empty filter, page or pageSize
Variants(r) ==
  {[r EXCEPT !.filter = f, !.page = p, !.pageSize = s] :
     f \in (IF r.filter = "" THEN {""} ELSE Filters \ {""}),
     p \in Numerals, s \in Numerals}

LiteralFree(text) == \A i \in DOMAIN text : text[i].k \notin {"strlit", "numlit"}

\* C4: the issued data and count queries are the ones built from the request,
\* their SQL text holds no interpolated value, and when they are handed to
\* client.query their text is the text built for every request that differs
\* only in its (non-empty) filter, page or pageSize.
C4_ValuesOnlyBound ==
  /\ \A st \in RawIssued("data") :
       st = BuiltFor(req)[1] /\ LiteralFree(st.text)
  /\ \A st \in RawIssued("count") :
       st = BuiltFor(req)[2] /\ LiteralFree(st.text)
  /\ (fn = "raw" /\ dataState = "pending" /\ countState = "pending")
       => \A v \in Variants(req) :
            LET built == BuiltFor(v) IN
              /\ \A st \in RawIssued("data") : built[1].text = st.text
              /\ \A st \in RawIssued("count") : built[2].text = st.text

C4_Witness ==
  /\ RawIssued("data") # {} /\ RawIssued("count") # {}
  /\ req.filter = "'; DROP TABLE sensor; --"
  /\ req.page = <<"2">> /\ req.pageSize = <<"2">>
  /\ \E st \in RawIssued("data") :
       /\ HasToken(st.text, Kw(" WHERE ("))
       /\ st.params[Len(st.params) - 1] = PNum(NumInt(2))
       /\ st.params[1] = PLike(req.filter)


\* --------------------------------------------------------------------- C5
\* the names the code may interpolate as identifiers for table t
TrustedNames(t) ==
  allowedTables \cup Range(DbColumns(t))
    \cup (IF t = "informacoes" THEN Range(filterColumns) \cup validColumns ELSE {})

\* C5: every identifier interpolated into a statement issued by get-raw-data is
\* a whitelisted table name, a column of the requested table as the schema
\* reports it, or a member of the fixed informacoes lists; no request string is
\* interpolated as a literal.
C5_IdentifiersTrusted ==
  fn = "raw" =>
    \A i \in DOMAIN issued : \A j \in DOMAIN issued[i].text :
      LET tok == issued[i].text[j] IN
        /\ tok.k \in {"ident", "rawident"} => tok.s \in TrustedNames(req.tableName)
        /\ tok.k # "strlit"

C5_Witness ==
  /\ req.tableName = "sensor" /\ req.sortBy = "id" /\ Truthy(req.filter)
  /\ \E st \in RawIssued("data") :
       /\ HasToken(st.text, Ident("id"))
       /\ HasToken(st.text, Kw(" ORDER BY "))
       /\ HasToken(st.text, Ident("descricao"))

\* --------------------------------------------------------------------- C6
HasWhere(text) == HasToken(text, Kw(" WHERE ("))

\* the tokens between " WHERE (" and the ")" that closes it
WherePredicate(text) ==
  IF ~HasWhere(text) THEN <<>>
  ELSE LET s == CHOOSE i \in DOMAIN text : text[i] = Kw(" WHERE (")
           e == CHOOSE i \in DOMAIN text :
                  /\ i > s /\ text[i] = Kw(")")
                  /\ \A j \in (s + 1)..(i - 1) : text[j] # Kw(")")
       IN  SubSeq(text, s + 1, e - 1)

\* C6: the issued data and count queries carry the same filter predicate (same
\* columns, same order, same placeholders), bound to the same '%filter%'
\* patterns, and both have a WHERE clause exactly when the filter is non-empty.
C6_SameFilterPredicate ==
  \A d \in RawIssued("data") : \A c \in RawIssued("count") :
    /\ HasWhere(d.text) <=> Truthy(req.filter)
    /\ HasWhere(c.text) <=> Truthy(req.filter)
    /\ WherePredicate(d.text) = WherePredicate(c.text)
    /\ Len(d.params) >= 2
    /\ c.params = SubSeq(d.params, 1, Len(d.params) - 2)
    /\ \A i \in DOMAIN c.params : c.params[i] = PLike(req.filter)
    /\ Truthy(req.filter) => c.params # <<>>

C6_Witness ==
  /\ req.tableName = "grupo" /\ req.filter = "'; DROP TABLE sensor; --"
  /\ \E d \in RawIssued("data") : \E c \in RawIssued("count") :
       /\ HasWhere(d.text) /\ HasWhere(c.text)
       /\ HasToken(WherePredicate(c.text), Ident("localizacao"))
       /\ Len(c.params) = 3

\* --------------------------------------------------------------------- C7
\* sortBy names a column the handler recognizes for table t
Recognized(t, sortBy) ==
  IF t = "informacoes" THEN sortBy \in validColumns
  ELSE sortBy \in Range(DbColumns(t))

UnrecognizedSort ==
  /\ fn = "raw" /\ ~InvalidTable(req.tableName)
  /\ Truthy(req.sortBy) /\ ~Recognized(req.tableName, req.sortBy)

\* C7: with a sortBy that is not recognized for the requested table, the data
\* query carries no ORDER BY clause, and the request ends in the success
\* response unless an awaited call of the relational source itself threw.
C7_UnknownSortIgnored ==
  UnrecognizedSort =>
    /\ \A d \in RawIssued("data") : ~HasToken(d.text, Kw(" ORDER BY "))
    /\ (pc = "done" /\ Connected) =>
         \/ resp.status = 200 /\ resp.success
         \/ resp = Caught /\ fault \in {"introspect", "sortcheck", "data", "count", "end"}

C7_Witness ==
  /\ UnrecognizedSort
  /\ req.tableName = "informacoes"
  /\ req.sortBy = "x\"; DROP TABLE sensor; --"
  /\ pc = "done" /\ resp.success
  /\ \E d \in RawIssued("data") : ~HasToken(d.text, Kw(" ORDER BY "))

\* --------------------------------------------------------------------- C8
\* sortOrder is DESC in some mix of upper and lower case
IsDescIgnoringCase(s) ==
  /\ Len(s) = 4
  /\ s[1] \in {"d", "D"} /\ s[2] \in {"e", "E"}
  /\ s[3] \in {"s", "S"} /\ s[4] \in {"c", "C"}

\* C8: an ORDER BY clause of an issued data query is followed by the column
\* and a direction that is DESC when the request's sortOrder is DESC in any
\* case, and ASC for every other or absent sortOrder.
C8_DirectionNormalized ==
  \A d \in RawIssued("data") : \A i \in DOMAIN d.text :
    /\ d.text[i] = Kw(" ORDER BY ") =>
         /\ i + 3 \in DOMAIN d.text
         /\ d.text[i + 3].k = "dir"
    /\ d.text[i].k = "dir" =>
         d.text[i].cs = IF IsDescIgnoringCase(req.sortOrder) THEN DESC ELSE ASC

C8_Witness ==
  /\ req.sortOrder = <<"d", "e", "s", "c">>
  /\ \E d \in RawIssued("data") : HasToken(d.text, Dir(DESC))

\* --------------------------------------------------------------------- C9
\* C9: the meta.sortOrder of a get-raw-data success response is ASC or DESC.
C9_MetaSortOrderNormalized ==
  (fn = "raw" /\ pc = "done" /\ resp.success) => resp.meta.sortOrder \in {ASC, DESC}

\* -------------------------------------------------------------------- C10
\* page < 1, pageSize < 1, or one of them not a number
MalformedPagination(b) ==
  \/ ~IsInt(b.page) \/ ~IsInt(b.pageSize)
  \/ b.page.n < 1 \/ b.pageSize.n < 1

\* C10: a request with malformed pagination values has no data or count query
\* issued and is answered 400; no data query is bound to a limit below 1, a
\* negative offset or NaN.
C10_MalformedPaginationRejected ==
  /\ (Admitted /\ MalformedPagination(ParseParams(NoLoc, req)))
       => /\ RawIssued("data") = {} /\ RawIssued("count") = {}
          /\ (pc = "done" /\ Connected /\ fault = "none") => resp.status = 400
  /\ \A d \in RawIssued("data") :
       LET limit  == d.params[Len(d.params) - 1].num
           offset == d.params[Len(d.params)].num
       IN  /\ IsInt(limit) /\ limit.n >= 1
           /\ IsInt(offset) /\ offset.n >= 0


\* -------------------------------------------------------------------- C11
\* the page and pageSize the request asks for (absent: 1 and 10)
Requested == ParseParams(NoLoc, req)

ValidPagination == ~MalformedPagination(Requested)

RawSuccess == fn = "raw" /\ pc = "done" /\ resp.success

\* the least k with k * size >= n
CeilDiv(n, size) ==
  CHOOSE k \in 0..n : k * size >= n /\ (k = 0 \/ (k - 1) * size < n)

\* C11: in a success response to a request with page >= 1 and pageSize >= 1,
\* the data query was bound to LIMIT pageSize and OFFSET (page-1)*pageSize,
\* meta.totalPages is ceil(totalRows/pageSize), and meta.currentPage and
\* meta.pageSize echo the request.
C11_PaginationArithmetic ==
  (RawSuccess /\ ValidPagination) =>
    /\ \A d \in RawIssued("data") :
         /\ LimitOf(d) = NumInt(Requested.pageSize.n)
         /\ OffsetOf(d) = NumInt((Requested.page.n - 1) * Requested.pageSize.n)
    /\ resp.meta.totalRows = dbRows
    /\ resp.meta.totalPages = NumInt(CeilDiv(dbRows, Requested.pageSize.n))
    /\ resp.meta.currentPage = Requested.page
    /\ resp.meta.pageSize = Requested.pageSize

C11_Witness ==
  /\ RawSuccess
  /\ req.page = <<"2">> /\ req.pageSize = <<"2">>
  /\ resp.meta.totalRows = 3 /\ resp.meta.totalPages = NumInt(2)
  /\ \E d \in RawIssued("data") : OffsetOf(d) = NumInt(2)

\* -------------------------------------------------------------------- C12
\* the rows of page p of the current request, over the same dataset
PageRows(p) ==
  LET d == BuiltFor([req EXCEPT !.page = <<DigitChars[p + 1]>>])[1]
  IN  DbPageRows(dbRows, LimitOf(d).n, OffsetOf(d).n)

RECURSIVE SumPages(_)
SumPages(p) == IF p = 0 THEN 0 ELSE PageRows(p) + SumPages(p - 1)

\* C12: over a static dataset, a success page holds at most pageSize rows,
\* namely min(pageSize, max(0, totalRows - (page-1)*pageSize)); the pages
\* 1..totalPages together hold totalRows rows; a page beyond totalPages is a
\* success with no rows.
C12_PagesPartitionRows ==
  (RawSuccess /\ ValidPagination) =>
    LET size  == Requested.pageSize.n
        page  == Requested.page.n
        total == resp.meta.totalRows
        left  == total - (page - 1) * size
    IN  /\ resp.dataLen <= size
        /\ resp.dataLen = (IF left <= 0 THEN 0 ELSE IF left < size THEN left ELSE size)
        /\ IsInt(resp.meta.totalPages)
        /\ SumPages(resp.meta.totalPages.n) = total
        /\ page > resp.meta.totalPages.n => resp.dataLen = 0

C12_Witness ==
  /\ RawSuccess
  /\ req.pageSize = <<"2">> /\ req.page = <<"2">>
  /\ resp.meta.totalRows = 3 /\ resp.dataLen = 1
  /\ PageRows(1) = 2

\* -------------------------------------------------------------------- C13
\* the identifiers of a filter predicate, in order
PredicateColumns(text) ==
  LET ids == SelectSeq(WherePredicate(text), LAMBDA tok : tok.k \in {"ident", "rawident"})
  IN  [i \in DOMAIN ids |-> ids[i].s]

\* C13: for tableName informacoes the data and count queries issued are the
\* joined ones and never the generic ones; a filter runs over the eight joined
\* columns; the data query is ordered by sortBy exactly when sortBy is in the
\* fixed list, whatever the column check on the raw table said.
C13_InformacoesJoined ==
  (fn = "raw" /\ req.tableName = "informacoes") =>
    \A d \in RawIssued("data") : \A c \in RawIssued("count") :
      /\ SubSeq(d.text, 1, Len(joinQuery)) = joinQuery
      /\ SubSeq(c.text, 1, Len(joinCountQuery)) = joinCountQuery
      /\ ~HasToken(d.text, Kw("SELECT * FROM public."))
      /\ ~HasToken(c.text, Kw("SELECT COUNT(*) FROM public."))
      /\ Truthy(req.filter) =>
           /\ PredicateColumns(d.text) =
                <<"i.id", "i.sensor", "s.descricao", "i.valor", "i.grupo", "g.nome",
                  "i.data_registro", "i.dispositivo">>
           /\ PredicateColumns(c.text) = PredicateColumns(d.text)
      /\ HasToken(d.text, Kw(" ORDER BY ")) <=>
           req.sortBy \in {"id", "sensor", "sensor_descricao", "valor", "grupo",
                           "grupo_nome", "data_registro", "dispositivo"}
      /\ HasToken(d.text, Kw(" ORDER BY ")) => HasToken(d.text, RawIdent(req.sortBy))

C13_Witness ==
  /\ fn = "raw" /\ req.tableName = "informacoes"
  /\ req.sortBy = "sensor_descricao" /\ Truthy(req.filter)
  /\ ColumnCheckRows(req.tableName, req.sortBy) = <<>>
  /\ ~HasToken(loc.query, Kw(" ORDER BY "))
  /\ \E d \in RawIssued("data") : HasToken(d.text, RawIdent("sensor_descricao"))

\* -------------------------------------------------------------------- C14
\* C14: the data and the count query are issued together; the success response
\* is assembled only when both have resolved; when either rejects, the
\* response is the single error response, with no rows and no totals, even if
\* the other query resolved.
C14_BothOrError ==
  fn = "raw" =>
    /\ (RawIssued("data") # {}) <=> (RawIssued("count") # {})
    /\ (dataState = "none") <=> (countState = "none")
    /\ (pc = "end" \/ resp.success) => (dataState = "ok" /\ countState = "ok")
    /\ (dataState = "err" \/ countState = "err") =>
         /\ pc = "done" /\ resp = Caught
         /\ resp.dataLen = 0 /\ resp.meta = NoMeta /\ ~resp.success

C14_Witness ==
  /\ fn = "raw" /\ pc = "done"
  /\ countState = "ok" /\ dataState = "err"
  /\ loc.totalRows = 3
  /\ resp = Caught

\* -------------------------------------------------------------------- C15
\* the stage of an awaited call of get-raw-data
StageOf(what) ==
  CASE what = "connect" -> "connection"
    [] what = "introspect" -> "introspection"
    [] what \in {"data", "count"} -> "execution"
    [] OTHER -> "other"

\* C15: the error kind of the response to a connection failure, to a
\* schema-introspection failure and to a data/count query failure differ: the
\* kind returned for a failure is not the kind returned for a failure of
\* another of these stages.
C15_FailureStagesDistinct ==
  (fn = "raw" /\ pc = "done" /\ fault \in {"connect", "introspect", "data", "count"}) =>
    \A w \in {"connect", "introspect", "data", "count"} :
      StageOf(w) # StageOf(fault) => CaughtFor(w).error # resp.error


\* ------------------------------------------------- aggregation: shared terms
Aggregated == fn = "sensor" /\ pc = "done" /\ resp.success

\* the group the reduction has just handled
Reduced == fn = "sensor" /\ pc \in {"reduce", "done"} /\ aggI >= 1
ReducedGroup == sensorData[aggI]

\* the readings of the rows of a group, in input order
RowsOf(key) == SelectSeq(resultRows, LAMBDA r : SensorKey(r) = key)
InputReadings(key) ==
  [i \in DOMAIN RowsOf(key) |->
     [value |-> ParseFloat(RowsOf(key)[i].valor),
      timestamp |-> RowsOf(key)[i].data_registro,
      dispositivo |-> RowsOf(key)[i].dispositivo]]
InputValues(key) == [i \in DOMAIN RowsOf(key) |-> ParseFloat(RowsOf(key)[i].valor)]

Numeric(vs) == \A i \in DOMAIN vs : IsNum(vs[i])
LessEq(x, y) == ~JsLess(y, x)

\* -------------------------------------------------------------------- C16
\* C16: aggregating zero rows is a success whose sensors map is empty and
\* whose six categories all are {current 0, average 0, min 0, max 0, no
\* readings}.
C16_EmptyInputDefaults ==
  (fn = "sensor" /\ pc = "done" /\ resultRows = <<>>) =>
    /\ resp.success /\ resp.status = 200 /\ resp.error = ""
    /\ sensorData = <<>>
    /\ DOMAIN metrics = {"temperature", "humidity", "water", "energy", "feed", "weight"}
    /\ \A c \in DOMAIN metrics :
         metrics[c] = [current |-> NumInt(0), average |-> NumInt(0), min |-> NumInt(0),
                       max |-> NumInt(0), readings |-> <<>>]

C16_Witness == Aggregated /\ resultRows = <<>> /\ resp.dataLen = 0 /\ sensorData = <<>>

C18_ReadingsCapped ==
  /\ (fn = "sensor" /\ pc \in {"reduce", "done"}) =>
       \A c \in DOMAIN metrics : Len(metrics[c].readings) <= 10
  /\ Reduced =>
       LET g   == ReducedGroup
           all == InputReadings(g.key)
           vs  == InputValues(g.key)
           n   == Len(all)
           k   == IF n < 10 THEN n ELSE 10
       IN  \A c \in TakenBranches(g) :
             LET m == metrics[c]
             IN  /\ m.readings = [i \in 1..k |-> all[i]]
                 /\ \A i \in 1..k : \A j \in (k + 1)..n :
                      m.readings[i].timestamp > all[j].timestamp
                 /\ Numeric(vs) =>
                      /\ SumValues([i \in 1..n |-> m.average], NumInt(0))
                           = SumValues(vs, NumInt(0))
                      /\ \A i \in 1..n : LessEq(m.min, vs[i]) /\ LessEq(vs[i], m.max)

C18_Witness ==
  /\ Reduced
  /\ Len(ReducedGroup.readings) = 11 /\ Numeric(InputValues(ReducedGroup.key))
  /\ TakenBranches(ReducedGroup) = {"water"}
  /\ Len(metrics["water"].readings) = 10
  /\ metrics["water"].readings[10].timestamp = 2
  /\ metrics["water"].average = NumInt(2)

\* -------------------------------------------------------------------- C19
\* the category of a canonical unit string
UnitCategory(type) ==
  CASE type = "Celsius" -> "temperature"
    [] type = "Percentual" -> "humidity"
    [] type = "Litros" -> "water"
    [] type \in {"kW", "kw"} -> "energy"
    [] type \in {"Kg", "kg"} -> "feed"

CanonicalUnits == {"Celsius", "Percentual", "Litros", "kW", "kw", "Kg", "kg"}

\* C19: a group whose type tag is a canonical unit string is assigned to that
\* unit's category whatever its description contains: after its reduction that
\* category holds the group's readings.
C19_TypeTagPrecedence ==
  (Reduced /\ ReducedGroup.sensor_type \in CanonicalUnits) =>
    LET g   == ReducedGroup
        all == InputReadings(g.key)
        k   == IF Len(all) < 10 THEN Len(all) ELSE 10
    IN  metrics[UnitCategory(g.sensor_type)].readings = [i \in 1..k |-> all[i]]

\* -------------------------------------------------------------------- C20
AllKeywords ==
  {temperatura, temp, umidade, humidity, agua, water, energia, energy, racao, feed,
   alimento, peso, weight, balanca}

MatchesNothing(g) ==
  /\ g.sensor_type \notin CanonicalUnits
  /\ \/ g.sensor_name = NullSeq
     \/ \A kw \in AllKeywords : ~Includes(ToLowerCase(g.sensor_name), kw)

C20_Groups ==
  (fn = "sensor" /\ pc \in {"reduce", "done"}) =>
    /\ \A i \in DOMAIN resultRows : \E j \in DOMAIN sensorData :
         sensorData[j].key = SensorKey(resultRows[i])
    /\ \A j \in DOMAIN sensorData :
         MatchesNothing(sensorData[j]) =>
           sensorData[j].readings = InputReadings(sensorData[j].key)

C20_Step ==
  (pc = "reduce" /\ aggI' = aggI + 1) =>
    /\ Cardinality({c \in Categories : metrics'[c] # metrics[c]}) <= 1
    /\ MatchesNothing(sensorData[aggI']) => metrics' = metrics

\* C20: the reduction of a group writes at most one of the six category
\* slots; a group matching no type tag and no keyword stays in the sensors
\* map with all its readings and leaves the six slots as they were.
C20_AtMostOneSlot == [](C20_Groups) /\ [][C20_Step]_vars

C20_Witness ==
  /\ Aggregated
  /\ Len(sensorData) = 2
  /\ MatchesNothing(sensorData[2]) /\ Len(sensorData[2].readings) >= 2
  /\ metrics["temperature"].readings # <<>>
  /\ \A c \in Categories \ {"temperature"} : metrics[c] = DefaultMetric


\* -------------------------------------------------------------------- C21
\* the position of the first input row of a group
FirstRow(g) ==
  CHOOSE i \in DOMAIN resultRows :
    /\ SensorKey(resultRows[i]) = g.key
    /\ \A h \in 1..(i - 1) : SensorKey(resultRows[h]) # g.key

\* the groups classified into category c
ClassifiedInto(c) == {j \in DOMAIN sensorData : c \in TakenBranches(sensorData[j])}

\* the statistics and kept readings of one group alone
OfOneGroup(m, g) ==
  LET all == InputReadings(g.key)
      vs  == InputValues(g.key)
      k   == IF Len(all) < 10 THEN Len(all) ELSE 10
  IN  /\ m.readings = [i \in 1..k |-> all[i]]
      /\ m.current = JsOrZero(vs[1])
      /\ m.average = Average(vs) /\ m.min = MathMin(vs) /\ m.max = MathMax(vs)

\* C21: after aggregation a category slot is at its zero default when no
\* group is classified into it, and otherwise holds the current, average,
\* min, max and readings of one group alone: of the groups classified into
\* it, the one whose first row comes latest in the input.
C21_LastGroupWins ==
  Aggregated =>
    \A c \in Categories :
      IF ClassifiedInto(c) = {}
      THEN metrics[c] = [current |-> NumInt(0), average |-> NumInt(0), min |-> NumInt(0),
                         max |-> NumInt(0), readings |-> <<>>]
      ELSE \E j \in ClassifiedInto(c) :
             /\ \A h \in ClassifiedInto(c) :
                  FirstRow(sensorData[h]) <= FirstRow(sensorData[j])
             /\ OfOneGroup(metrics[c], sensorData[j])

C21_Witness ==
  /\ Aggregated
  /\ ClassifiedInto("temperature") = {1, 2}
  /\ Len(sensorData[1].readings) >= 2 /\ Len(sensorData[2].readings) >= 2
  /\ sensorData[1].sensor_type # sensorData[2].sensor_type
  /\ OfOneGroup(metrics["temperature"], sensorData[2])
  /\ metrics["humidity"] = DefaultMetric

\* -------------------------------------------------------------------- C22
\* sensorDescription + "_" + locationId
GroupingKey(row) ==
  (IF row.sensor_descricao = NullSeq THEN <<"n", "u", "l", "l">> ELSE row.sensor_descricao)
    \o <<"_", DigitChars[row.grupo + 1]>>

\* C22: once all rows are grouped, every row is in the group of its key
\* description_location, the groups have distinct keys, and the readings of
\* a group are exactly the rows of its key in the order received; for the
\* newest-first input each group's readings are newest first.
C22_GroupingKeepsOrder ==
  (fn = "sensor" /\ pc \in {"reduce", "done"}) =>
    /\ \A i \in DOMAIN resultRows : \E j \in DOMAIN sensorData :
         sensorData[j].key = GroupingKey(resultRows[i])
    /\ \A j, h \in DOMAIN sensorData : sensorData[j].key = sensorData[h].key => j = h
    /\ \A j \in DOMAIN sensorData :
         LET rs == SelectSeq(resultRows, LAMBDA r : GroupingKey(r) = sensorData[j].key)
             g  == sensorData[j].readings
         IN  /\ Len(g) = Len(rs) /\ Len(g) >= 1
             /\ \A i \in DOMAIN g :
                  /\ g[i].timestamp = rs[i].data_registro
                  /\ g[i].value = ParseFloat(rs[i].valor)
                  /\ g[i].dispositivo = rs[i].dispositivo
             /\ \A i \in 1..(Len(g) - 1) : g[i].timestamp > g[i + 1].timestamp

C22_Witness ==
  /\ fn = "sensor" /\ pc = "reduce"
  /\ Len(sensorData) = 2
  /\ sensorData[1].sensor_name = sensorData[2].sensor_name
  /\ sensorData[1].grupo_id # sensorData[2].grupo_id
  /\ Len(sensorData[1].readings) >= 3 /\ Len(sensorData[2].readings) >= 3

\* -------------------------------------------------------------------- C23
\* C23: a row whose valor is not numeric contributes no reading to any group
\* and does not reach the statistics: every reading and every current,
\* average, min and max is a number.
C23_NonNumericSkipped ==
  (fn = "sensor" /\ pc \in {"reduce", "done"}) =>
    /\ \A j \in DOMAIN sensorData : \A i \in DOMAIN sensorData[j].readings :
         IsNum(sensorData[j].readings[i].value)
    /\ \A c \in Categories :
         /\ IsNum(metrics[c].current) /\ IsNum(metrics[c].average)
         /\ IsNum(metrics[c].min) /\ IsNum(metrics[c].max)


\* -------------------------------------------------------------------- C24
\* C24: every reading of the last 24 hours that matches the request is
\* aggregated: total_readings of a success response is the number of
\* readings in the window, none being cut off by a row limit.
C24_WholeWindowAggregated ==
  (fn = "sensor" /\ pc = "done" /\ resp.success) => resp.dataLen = dbRows


\* -------------------------------------------------------------------- C27
\* C27: a request without Authorization header is answered 401 with no
\* connection attempt and no query; client.connect is reached only for a
\* request that carried the header.
C27_NoConnectionUnauthenticated ==
  /\ (connectCalled \/ issued # <<>>) => req.authHeader
  /\ (fn \in {"raw", "sensor"} /\ pc = "done" /\ req.method # "OPTIONS" /\ ~req.authHeader) =>
       /\ resp.status = 401
       /\ ~connectCalled /\ issued = <<>>

\* -------------------------------------------------------------------- C28
\* the numbers of the placeholders of a text, in order
Placeholders(text) ==
  LET phs == SelectSeq(text, LAMBDA tok : tok.k = "ph")
  IN  [i \in DOMAIN phs |-> phs[i].n]

\* the number of columns a filter of the request runs over
FilterWidth(r) ==
  IF r.filter = "" THEN 0
  ELSE IF r.tableName = "informacoes" THEN 8
  ELSE Len(DbColumns(r.tableName))

\* C28: in every data and count query of get-raw-data the placeholders are
\* $1..$n for the n parameters passed with it; the data query's parameters
\* are the k filter patterns followed by pageSize and offset, bound to LIMIT
\* and OFFSET in that order; the count query's are the k filter patterns.
C28_PlaceholdersMatchParams ==
  \A st \in RawIssued("data") \cup RawIssued("count") :
    LET n == Len(st.params)
        k == FilterWidth(req)
    IN  /\ Placeholders(st.text) = [i \in 1..n |-> i]
        /\ \A i \in 1..k : st.params[i] = PLike(req.filter)
        /\ st.kind = "count" => n = k
        /\ st.kind = "data" =>
             /\ n = k + 2
             /\ st.params[k + 1] = PNum(Requested.pageSize)
             /\ st.params[k + 2] = PNum(JsOffset(Requested.page, Requested.pageSize))
             /\ SubSeq(st.text, Len(st.text) - 3, Len(st.text)) =
                  <<Kw(" LIMIT "), Ph(k + 1), Kw(" OFFSET "), Ph(k + 2)>>

C28_Witness ==
  /\ fn = "raw" /\ req.tableName = "informacoes" /\ req.filter # ""
  /\ req.sortBy = "id"
  /\ \E d \in RawIssued("data") : Len(d.params) = 10
  /\ \E c \in RawIssued("count") : Len(c.params) = 8


\* -------------------------------------------------------------------- C25
\* C25: a POST/PUT to update-app-configs by an authenticated user who is not
\* an administrator never updates or inserts the app_configs row.
C25_OnlyAdminsUpdate ==
  \A p \in DOMAIN cfgProc :
    (cfgProc[p].fn = "update" /\ cfgProc[p].user # NoUser /\ ~cfgProc[p].user.admin) =>
      /\ ~cfgProc[p].wrote
      /\ cfgProc[p].pc \notin {"update", "insert"}

\* -------------------------------------------------------------------- C29
\* C29: starting from an empty table, app_configs holds at most one row after
\* any interleaving of get-app-configs and update-app-configs requests whose
\* lookups all succeeded: two requests never both find no row and both insert.
C29_AtMostOneConfigRow ==
  (\A p \in DOMAIN cfgProc : ~cfgProc[p].selectFailed) => Len(cfgTable) <= 1


\* -------------------------------------------------------------------- C26
\* C26: every fetch the viewer issues because the filter text, the selected
\* table or the sort changed is issued with page 1; no fetch carries a new
\* filter together with the page number left over from the previous one.
C26_FilterChangeResetsPage ==
  \A f \in uiFetches : f.cause \in {"filter", "table", "sort"} => f.params.page = 1

\* -------------------------------------------------------------------- C30
\* C30: once every pending fetch of the viewer has settled without an error
\* displayed, the data and meta shown are those of the request made with the
\* current parameters; and loading is false only when no fetch for the current
\* parameters is pending.
C30_LatestRequestShown ==
  /\ (ui.mounted /\ uiFetches = {} /\ ui.error = Null) => ui.shown = UiParams(ui)
  /\ (ui.mounted /\ ~ui.loading) => ~\E f \in uiFetches : f.params = UiParams(ui)

====
